---- MODULE Spec2Model ----
(***************************************************************************)
(* Threat-detection engine of security-android: the packet inspector       *)
(* (rust/src/packet_inspection.rs) and the file scanner (rust/scanner.rs). *)
(*                                                                         *)
(* Bytes are integers 0..255.  A packet is a byte sequence, written        *)
(* sparsely so that packets of more than a MiB stay small values:          *)
(*   len     the number of bytes (indexes 0..len-1 exist)                  *)
(*   ov      explicit bytes, a function from some indexes to bytes         *)
(*   word    a literal byte string placed at index wordAt                  *)
(*   fill    the value of every other byte                                 *)
(* Confidences (f32 literals 0.0 .. 0.95 in the source) are hundredths.    *)
(***************************************************************************)
EXTENDS Integers, Sequences, FiniteSets, TLC

VARIABLES
    threat_ips,   \* PacketInspector.threat_ips: set of u32 destinations
    pc,           \* "idle" | "done" | "panicked": position of the caller of analyze
    packet,       \* the packet of the last analyze call
    verdict,      \* what that call did: return code, rule, panic, path
    seen,         \* the (verdict, return code) pairs of the detections so far
    signatures,   \* MALWARE_SIGNATURES: the entries in the map's iteration order
    poisoned,     \* whether the mutex of MALWARE_SIGNATURES is poisoned
    spc,          \* "idle" | "done" | "panicked": position of the scanner's caller
    call,         \* the last scanner call: operation, input, outcome
    fusion,       \* inputs and output of combine_scan_results taken alone
    mentioned,    \* per name, the pattern of the last successful call that gave it one
    last_scan,    \* the scan before this one, if no update or init came between
    lock,         \* the thread that holds the mutex of MALWARE_SIGNATURES, or "free"
    tpc,          \* per thread, its position in scan_with_signatures / update
    tloc,         \* per thread, its locals
    committed     \* the store as the last completed update or init left it

inspector_vars == <<threat_ips, pc, packet, verdict, seen>>

scanner_vars == <<signatures, poisoned, spc, call, mentioned, last_scan>>

conc_vars == <<lock, tpc, tloc, committed>>

caller_vars == <<spc, call, mentioned, last_scan>>

vars == <<threat_ips, pc, packet, verdict, seen, signatures, poisoned, spc, call, fusion,
          mentioned, last_scan, lock, tpc, tloc, committed>>

---------------------------------------------------------------------------
(* Byte and slice helpers *)

Min(a, b) == IF a < b THEN a ELSE b

Max(a, b) == IF a < b THEN b ELSE a

\* packet[i] for an index inside the packet
Byte(p, i) ==
    IF i \in DOMAIN p.ov THEN p.ov[i]
    ELSE IF i >= p.wordAt /\ i < p.wordAt + Len(p.word) THEN p.word[i - p.wordAt + 1]
    ELSE p.fill

\* u8::to_ascii_lowercase
to_ascii_lowercase(b) == IF b >= 65 /\ b <= 90 THEN b + 32 ELSE b

\* u16::from_be_bytes([a, b])
u16_from_be_bytes(a, b) == a * 256 + b

\* u32::from_be_bytes([a, b, c, d]); a u32 is kept as its two 16-bit halves
u32_from_be_bytes(a, b, c, d) == [hi |-> a * 256 + b, lo |-> c * 256 + d]


---------------------------------------------------------------------------
(* Return codes of analyze, as the source's comments name them *)

ALLOW == 0
MALICIOUS_IP == 1
MALICIOUS_C2 == 1
SENSITIVE_DATA == 2
MALICIOUS_LARGE_UPLOAD == 1
MALICIOUS_TLS == 1
SUSPICIOUS_LARGE_UDP == 3
DNS_TUNNELING == 3

\* sizes the source tests against
MinIpLen == 20
\* a TCP length test that counts only the ports (20 + 4)
MinTcpLen_ports_only == MinIpLen + 4

MinTcpLen == 40
MinUdpLen == 28
UdpHeaderLen == 8
TcpMinHeader == 20
HttpSampleLimit == 2048
LargeUpload == 1048576
LargeUdp == 512
\* the large-UDP limit used for the query as well
DnsQueryLimit_as_large_udp == LargeUdp

DnsQueryLimit == 100
Base64Sample == 128
Base64Percent == 90
TlsMinRecord == 5
TlsHandshake == 22
FingerprintBytes == 32

\* the return statement that produced a code
RuleCode(rule) ==
    CASE rule = "threat_ip"      -> MALICIOUS_IP
      [] rule = "c2_port"        -> MALICIOUS_C2
      [] rule = "http_sensitive" -> SENSITIVE_DATA
      [] rule = "http_large"     -> MALICIOUS_LARGE_UPLOAD
      [] rule = "tls_fingerprint" -> MALICIOUS_TLS
      [] rule = "large_udp"      -> SUSPICIOUS_LARGE_UDP
      [] rule = "dns_tunneling"  -> DNS_TUNNELING
      [] OTHER                   -> ALLOW

\* results of a sub-inspector: Option<u8> plus what happened on the way
None(why) == [some |-> FALSE, val |-> ALLOW, rule |-> why, panic |-> FALSE]

Some(rule) == [some |-> TRUE, val |-> RuleCode(rule), rule |-> rule, panic |-> FALSE]

Panic(where) == [some |-> FALSE, val |-> ALLOW, rule |-> where, panic |-> TRUE]

\* result of analyze and of the analyze_* functions
\* path: the functions entered, in order; short: the sub-inspectors that gave up
\* because the packet ends before an offset they computed
Ret(rule, path, short) ==
    [ret |-> RuleCode(rule), rule |-> rule, panic |-> FALSE, path |-> path, short |-> short]

Died(where, path) ==
    [ret |-> ALLOW, rule |-> where, panic |-> TRUE, path |-> path, short |-> {}]

---------------------------------------------------------------------------
(* helpers of PacketInspector *)

C2Ports == {8080, 8443, 53, 5353, 1935, 9999, 22, 23}

\* the list with port 22 left out
is_known_c2_port_no_ssh(port) == port \in C2Ports \ {22}

is_known_c2_port(port) == port \in C2Ports

\* hay is the slice of p that starts at index from and holds n bytes
bytes_contains_exact(p, from, n, needle) ==
    IF Len(needle) = 0 \/ n < Len(needle) THEN FALSE
    ELSE \E i \in 0..(n - Len(needle)) :
            \A j \in 1..Len(needle) : Byte(p, from + i + j - 1) = needle[j]

bytes_contains_case_insensitive(p, from, n, needle) ==
    IF Len(needle) = 0 \/ n < Len(needle) THEN FALSE
    ELSE \E i \in 0..(n - Len(needle)) :
            \A j \in 1..Len(needle) :
                to_ascii_lowercase(Byte(p, from + i + j - 1)) = to_ascii_lowercase(needle[j])

IsBase64Char(c) ==
    \/ c >= 65 /\ c <= 90
    \/ c >= 97 /\ c <= 122
    \/ c >= 48 /\ c <= 57
    \/ c \in {43, 47, 61, 45, 95}

\* looks_like_base64 of the n-byte slice at index from; "panic" is the division by zero
looks_like_base64(p, from, n) ==
    LET sample_len == Min(n, Base64Sample)
        alpha == Cardinality({i \in 0..(sample_len - 1) : IsBase64Char(Byte(p, from + i))})
    IN  IF sample_len = 0 THEN [panic |-> TRUE, val |-> FALSE]
        ELSE [panic |-> FALSE, val |-> (alpha * 100) \div sample_len > Base64Percent]

\* format!("{}", b): the decimal digits of a byte, most significant first
Decimal(b) ==
    IF b >= 100 THEN <<b \div 100, (b \div 10) % 10, b % 10>>
    ELSE IF b >= 10 THEN <<b \div 10, b % 10>>
    ELSE <<b>>

Dash == 10

RECURSIVE JoinDecimal(_, _, _)
\* parts.join("-") over the bytes from..from+n-1 of p; characters are 0..9 and Dash
JoinDecimal(p, from, n) ==
    IF n = 0 THEN <<>>
    ELSE IF n = 1 THEN Decimal(Byte(p, from))
    ELSE Decimal(Byte(p, from)) \o <<Dash>> \o JoinDecimal(p, from + 1, n - 1)

\* the decimal digits of a 16-bit value
Decimal16(v) ==
    IF v >= 10000 THEN <<v \div 10000, (v \div 1000) % 10, (v \div 100) % 10, (v \div 10) % 10, v % 10>>
    ELSE IF v >= 1000 THEN <<v \div 1000, (v \div 100) % 10, (v \div 10) % 10, v % 10>>
    ELSE Decimal(v)

RECURSIVE JoinDecimal16(_, _, _)
\* the n big-endian 16-bit words from index from on, joined with "-"
JoinDecimal16(p, from, n) ==
    IF n = 0 THEN <<>>
    ELSE IF n = 1 THEN Decimal16(Byte(p, from) * 256 + Byte(p, from + 1))
    ELSE Decimal16(Byte(p, from) * 256 + Byte(p, from + 1)) \o <<Dash>>
         \o JoinDecimal16(p, from + 2, n - 1)

\* a fingerprint of the 16-bit words that follow the record type, as JA3 lists them
calculate_tls_fingerprint_u16_words(p, from, n) ==
    JoinDecimal16(p, from + 1, (Min(n, FingerprintBytes) - 1) \div 2)

calculate_tls_fingerprint(p, from, n) == JoinDecimal(p, from, Min(n, FingerprintBytes))

MAL_FPS ==
    { <<7,7,1,Dash,5,2,3,9,3,Dash,5,2,3,9,2,Dash,4,9,1,9,5,Dash,4,9,1,9,9>>,
      <<7,7,1,Dash,4,9,1,9,5,Dash,4,9,1,9,9,Dash,4,9,1,9,6,Dash,4,9,2,0,0>> }

StrContains(s, m) ==
    Len(m) <= Len(s) /\ \E i \in 0..(Len(s) - Len(m)) : \A j \in 1..Len(m) : s[i + j] = m[j]

is_malicious_fingerprint(fp) == \E m \in MAL_FPS : StrContains(fp, m)

---------------------------------------------------------------------------
(* sub-inspectors *)

KW_PASSWORD == <<112,97,115,115,119,111,114,100>>

KW_API_KEY == <<97,112,105,95,107,101,121>>

KW_TOKEN == <<116,111,107,101,110>>

KW_AUTHORIZATION == <<97,117,116,104,111,114,105,122,97,116,105,111,110>>

\* the IP header length the packet declares: (packet[0] & 0x0F) * 4
Ihl(p) == (Byte(p, 0) % 16) * 4

\* the TCP data offset the packet declares: (packet[ihl + 12] >> 4) * 4
DataOffset(p) == (Byte(p, Ihl(p) + 12) \div 16) * 4

inspect_http_unchecked(p) ==
    IF p.len = 0 THEN Panic("inspect_http: packet[0]")
    ELSE IF Ihl(p) + 12 >= p.len THEN Panic("inspect_http: packet[tcp_offset + 12]")
    ELSE LET payload_offset == Ihl(p) + DataOffset(p)
             payload_len == p.len - payload_offset
             sample_len == Min(payload_len, HttpSampleLimit)
         IN  IF payload_offset > p.len THEN Panic("inspect_http: packet[payload_offset..]")
             ELSE IF \/ bytes_contains_case_insensitive(p, payload_offset, sample_len, KW_PASSWORD)
                     \/ bytes_contains_case_insensitive(p, payload_offset, sample_len, KW_API_KEY)
                     \/ bytes_contains_case_insensitive(p, payload_offset, sample_len, KW_TOKEN)
                     \/ bytes_contains_case_insensitive(p, payload_offset, sample_len, KW_AUTHORIZATION)
                  THEN Some("http_sensitive")
             ELSE IF sample_len > LargeUpload THEN Some("http_large")
             ELSE None("no_decision")

inspect_http(p) ==
    IF p.len = 0 THEN Panic("inspect_http: packet[0]")
    ELSE IF p.len <= Ihl(p) + TcpMinHeader THEN None("short")
    ELSE IF Ihl(p) + 12 >= p.len THEN Panic("inspect_http: packet[tcp_offset + 12]")
    ELSE LET payload_offset == Ihl(p) + DataOffset(p)
             payload_len == p.len - payload_offset
             sample_len == Min(payload_len, HttpSampleLimit)
         IN  IF p.len <= payload_offset THEN None("short")
             ELSE IF \/ bytes_contains_case_insensitive(p, payload_offset, sample_len, KW_PASSWORD)
                     \/ bytes_contains_case_insensitive(p, payload_offset, sample_len, KW_API_KEY)
                     \/ bytes_contains_case_insensitive(p, payload_offset, sample_len, KW_TOKEN)
                     \/ bytes_contains_case_insensitive(p, payload_offset, sample_len, KW_AUTHORIZATION)
                  THEN Some("http_sensitive")
             ELSE IF sample_len > LargeUpload THEN Some("http_large")
             ELSE None("no_decision")

inspect_tls(p) ==
    IF p.len = 0 THEN Panic("inspect_tls: packet[0]")
    ELSE IF p.len <= Ihl(p) + TcpMinHeader THEN None("short")
    ELSE IF Ihl(p) + 12 >= p.len THEN Panic("inspect_tls: packet[tcp_offset + 12]")
    ELSE LET payload_offset == Ihl(p) + DataOffset(p)
             payload_len == p.len - payload_offset
         IN  IF p.len <= payload_offset + TlsMinRecord THEN None("short")
             ELSE IF Byte(p, payload_offset) = TlsHandshake /\ payload_len > TlsMinRecord
                     /\ is_malicious_fingerprint(
                            calculate_tls_fingerprint(p, payload_offset, payload_len))
                  THEN Some("tls_fingerprint")
             ELSE None("no_decision")

\* inspect_dns returns a code, not an Option: some is TRUE for the code 3
inspect_dns(p) ==
    IF p.len = 0 THEN Panic("inspect_dns: packet[0]")
    ELSE LET udp_offset == Ihl(p)
             dns_offset == udp_offset + UdpHeaderLen
             query_len == p.len - dns_offset
         IN  IF p.len <= udp_offset + UdpHeaderLen THEN None("short")
             ELSE IF p.len <= dns_offset THEN None("short")
             ELSE IF query_len > DnsQueryLimit THEN Some("dns_tunneling")
             ELSE IF looks_like_base64(p, dns_offset, query_len).panic
                  THEN Panic("looks_like_base64: division by zero")
             ELSE IF looks_like_base64(p, dns_offset, query_len).val THEN Some("dns_tunneling")
             ELSE None("no_decision")

---------------------------------------------------------------------------
(* analyze and the per-protocol functions; ips is self.threat_ips *)

analyze_ipv6(p, path) == Ret("ipv6", Append(path, "analyze_ipv6"), {})

analyze_icmp(p, path) == Ret("icmp", Append(path, "analyze_icmp"), {})

analyze_tcp(p, path0) ==
    LET path == Append(path0, "analyze_tcp") IN
    IF p.len < MinTcpLen THEN Ret("tcp_short", path, {})
    ELSE IF 23 >= p.len THEN Died("analyze_tcp: packet[23]", path)
    ELSE LET src_port == u16_from_be_bytes(Byte(p, 20), Byte(p, 21))
             dst_port == u16_from_be_bytes(Byte(p, 22), Byte(p, 23))
             is_http == src_port = 80 \/ dst_port = 80
             is_tls == src_port = 443 \/ dst_port = 443
             http == inspect_http(p)
             tls == inspect_tls(p)
             path_http == IF is_http THEN Append(path, "inspect_http") ELSE path
             path_tls == Append(path_http, "inspect_tls")
             short_http == IF is_http /\ http.rule = "short" THEN {"inspect_http"} ELSE {}
         IN  IF is_known_c2_port(dst_port) THEN Ret("c2_port", path, {})
             ELSE IF is_http /\ http.panic THEN Died(http.rule, path_http)
             ELSE IF is_http /\ http.some THEN Ret(http.rule, path_http, {})
             ELSE IF ~is_tls THEN Ret("tcp_default", path_http, short_http)
             ELSE IF tls.panic THEN Died(tls.rule, path_tls)
             ELSE IF tls.some THEN Ret(tls.rule, path_tls, short_http)
             ELSE Ret("tcp_default", path_tls,
                      short_http \cup (IF tls.rule = "short" THEN {"inspect_tls"} ELSE {}))

analyze_udp(p, path0) ==
    LET path == Append(path0, "analyze_udp") IN
    IF p.len < MinUdpLen THEN Ret("udp_short", path, {})
    ELSE IF 23 >= p.len THEN Died("analyze_udp: packet[23]", path)
    ELSE LET dst_port == u16_from_be_bytes(Byte(p, 22), Byte(p, 23))
             dns == inspect_dns(p)
             path_dns == Append(path, "inspect_dns")
         IN  IF dst_port = 53 \/ dst_port = 5353
             THEN IF dns.panic THEN Died(dns.rule, path_dns)
                  ELSE IF dns.some THEN Ret(dns.rule, path_dns, {})
                  ELSE Ret("dns_default", path_dns,
                           IF dns.rule = "short" THEN {"inspect_dns"} ELSE {})
             ELSE IF p.len > LargeUdp THEN Ret("large_udp", Append(path, "large_udp_rule"), {})
             ELSE Ret("udp_default", Append(path, "large_udp_rule"), {})

\* the protocol dispatch done before the threat-set lookup
analyze_ipv4_dispatch_first(ips, p, path0) ==
    LET path == Append(path0, "analyze_ipv4") IN
    IF p.len < MinIpLen THEN Ret("too_short", path, {})
    ELSE IF 19 >= p.len THEN Died("analyze_ipv4: packet[19]", path)
    ELSE LET protocol == Byte(p, 9)
             dst_ip == u32_from_be_bytes(Byte(p, 16), Byte(p, 17), Byte(p, 18), Byte(p, 19))
             sub == IF protocol = 6 THEN analyze_tcp(p, path)
                    ELSE IF protocol = 17 THEN analyze_udp(p, path)
                    ELSE IF protocol = 1 THEN analyze_icmp(p, path)
                    ELSE Ret("proto_other", path, {})
         IN  IF sub.panic \/ sub.ret # ALLOW THEN sub
             ELSE IF dst_ip \in ips THEN Ret("threat_ip", path, {})
             ELSE sub

analyze_ipv4(ips, p, path0) ==
    LET path == Append(path0, "analyze_ipv4") IN
    IF p.len < MinIpLen THEN Ret("too_short", path, {})
    ELSE IF 19 >= p.len THEN Died("analyze_ipv4: packet[19]", path)
    ELSE LET protocol == Byte(p, 9)
             dst_ip == u32_from_be_bytes(Byte(p, 16), Byte(p, 17), Byte(p, 18), Byte(p, 19))
         IN  IF dst_ip \in ips THEN Ret("threat_ip", path, {})
             ELSE IF protocol = 6 THEN analyze_tcp(p, path)
             ELSE IF protocol = 17 THEN analyze_udp(p, path)
             ELSE IF protocol = 1 THEN analyze_icmp(p, path)
             ELSE Ret("proto_other", path, {})

analyze(ips, p) ==
    LET path == <<"analyze">> IN
    IF p.len < MinIpLen THEN Ret("too_short", path, {})
    ELSE IF p.len = 0 THEN Died("analyze: packet[0]", path)
    ELSE LET ip_version == (Byte(p, 0) \div 16) % 16
         IN  IF ip_version = 4 THEN analyze_ipv4(ips, p, path)
             ELSE IF ip_version = 6 THEN analyze_ipv6(p, path)
             ELSE Ret("not_ip", path, {})

---------------------------------------------------------------------------
(* the packets the caller hands to analyze *)

\* slack, in bytes, around every length boundary the code tests
MaxExtra == 1

\* bytes a packet may run on after the literal it carries
TailSlack == 3

MkPacket(b0, proto, dst, sport, dport, doff, len, fill, word, wordAt) ==
    LET at == (b0 % 16) * 4 + 12
        idx == {i \in {0, 9, 16, 17, 18, 19, 20, 21, 22, 23, at} : i < len}
    IN  [len |-> len, fill |-> fill, word |-> word, wordAt |-> wordAt,
         ov |-> [i \in idx |->
                   CASE i = 0  -> b0
                     [] i = 9  -> proto
                     [] i = 16 -> dst[1]
                     [] i = 17 -> dst[2]
                     [] i = 18 -> dst[3]
                     [] i = 19 -> dst[4]
                     [] i = 20 -> sport \div 256
                     [] i = 21 -> sport % 256
                     [] i = 22 -> dport \div 256
                     [] i = 23 -> dport % 256
                     [] OTHER  -> doff * 16]]

ADDR_A == <<203, 0, 113, 7>>

ADDR_A_REVERSED == <<7, 113, 0, 203>>

ADDR_B == <<10, 0, 0, 1>>

DstAddrs == {ADDR_A, ADDR_A_REVERSED, ADDR_B}

U32(a) == u32_from_be_bytes(a[1], a[2], a[3], a[4])

ThreatSets == {{}, {U32(ADDR_A)}, {U32(ADDR_A), U32(ADDR_B)}}

\* version 4 with IHL 5, 0 and 15; version 6; version 1
B0s == {69, 64, 79, 101, 21}

B0v4 == {69, 64, 79}

Protos == {6, 17, 1, 99}

Doffs == {0, 5, 15}

PortPairs ==
    { <<1234, 80>>, <<80, 1234>>, <<1234, 443>>, <<443, 1234>>, <<80, 443>>, <<443, 80>>,
      <<80, 8080>>, <<443, 22>>, <<1234, 53>>, <<1234, 1234>> }

UdpPorts == {53, 5353, 1234, 8080}

PayloadOffset(b0, doff) == (b0 % 16) * 4 + doff * 4

SmallLens(b0, doff) ==
    {0, 1, 19, 20, 27, 28, 39, 40}
    \cup { (b0 % 16) * 4 + UdpHeaderLen + d : d \in 0..MaxExtra }
    \cup { (b0 % 16) * 4 + TcpMinHeader + d : d \in 0..MaxExtra }
    \cup { PayloadOffset(b0, doff) + d : d \in 0..MaxExtra }
    \cup { PayloadOffset(b0, doff) + TlsMinRecord + d : d \in 0..MaxExtra }

\* every version, protocol and destination, at the lengths analyze itself tests
HeaderPackets ==
    { MkPacket(b0, proto, dst, 1234, 8080, 5, len, 0, <<>>, 0) :
        b0 \in B0s, proto \in Protos, dst \in DstAddrs, len \in {0, 1, 19, 20, 21, 40, 600} }

TcpPackets ==
    UNION { { MkPacket(b0, 6, dst, pp[1], pp[2], doff, len, 0, <<>>, 0) :
                dst \in {ADDR_A, ADDR_B}, pp \in PortPairs, len \in SmallLens(b0, doff) } :
            b0 \in B0v4, doff \in Doffs }

UdpLens(b0) ==
    {27, 28, 29, LargeUdp, LargeUdp + 1}
    \cup { (b0 % 16) * 4 + UdpHeaderLen + d : d \in 0..MaxExtra }
    \cup { (b0 % 16) * 4 + UdpHeaderLen + DnsQueryLimit + d : d \in 0..MaxExtra }
    \cup { (b0 % 16) * 4 + UdpHeaderLen + 150 }

UdpPackets ==
    UNION { { MkPacket(b0, 17, dst, 1234, dport, 0, len, fill, <<>>, 0) :
                dst \in {ADDR_A, ADDR_B}, dport \in UdpPorts, fill \in {0, 97},
                len \in UdpLens(b0) } :
            b0 \in B0v4 }

\* "PassWord", "API_KEY", "ToKeN", "Authorization", and "passw0rd" (no keyword)
Words ==
    { <<80,97,115,115,87,111,114,100>>, <<65,80,73,95,75,69,89>>, <<84,111,75,101,78>>,
      <<65,117,116,104,111,114,105,122,97,116,105,111,110>>,
      <<112,97,115,115,119,48,114,100>> }

\* a literal at the start of the payload, one byte in, and inside the TCP header
HttpNearPackets ==
    UNION { { MkPacket(b0, 6, ADDR_B, pp[1], pp[2], doff, at + Len(w) - 1 + d, 46, w, at) :
                pp \in {<<1234, 80>>, <<80, 443>>, <<80, 8080>>}, w \in Words,
                d \in 0..TailSlack,
                at \in {PayloadOffset(b0, doff), PayloadOffset(b0, doff) + 1,
                        (b0 % 16) * 4 + 13} } :
            b0 \in {69, 79}, doff \in {0, 5} }

\* a literal that ends the 2048-byte sample, straddles its end, or lies beyond it
HttpFarPackets ==
    UNION { { MkPacket(69, 6, ADDR_B, 1234, 80, doff, at + Len(w) + d, 46, w, at) :
                d \in {0, TailSlack},
                at \in {PayloadOffset(69, doff) + HttpSampleLimit - Len(w),
                        PayloadOffset(69, doff) + HttpSampleLimit - Len(w) + 1,
                        PayloadOffset(69, doff) + HttpSampleLimit} } :
            w \in Words, doff \in {5, 15} }

\* payloads of a MiB and more
HugePackets ==
    { MkPacket(69, 6, ADDR_B, pp[1], pp[2], 5, 40 + LargeUpload + d, 46, <<>>, 0) :
        pp \in {<<1234, 80>>, <<80, 443>>, <<80, 8080>>}, d \in 0..MaxExtra }

\* handshake records (first byte 22) and other records on port 443
TlsPackets ==
    { MkPacket(69, 6, ADDR_B, pp[1], pp[2], 5, 40 + n, 0, w, 40) :
        pp \in {<<1234, 443>>, <<80, 443>>}, n \in {5, 6, 7, 40},
        w \in { <<22, 3, 3, 0, 5, 1>>, <<22, 3, 3, 204, 169, 204, 168, 192, 43, 192, 47>>,
                <<23, 3, 3, 0, 5, 1>>,
                <<22, 77, 1, 52, 39, 3, 52, 39, 2, 49, 195, 49, 199>>,
                <<22, 7, 71, 5, 23, 93, 5, 23, 92, 4, 91, 95, 4, 91, 99>>,
                <<77, 15, 23, 93, 52, 39, 24, 91, 95, 49, 199>> } }

\* "c29tZWJhc2U2NHN0cmluZw==", the string of test_base64_detector
BASE64_TEST_STRING ==
    <<99,50,57,116,90,87,74,104,99,50,85,50,78,72,78,48,99,109,108,117,90,119,61,61>>

\* DNS queries of a to 100 bytes: letters, with no, one or two zero bytes in
\* front, and the test string
DnsPackets ==
    { MkPacket(69, 17, ADDR_B, 1234, dport, 7, 28 + q, 97, z, 28) :
        dport \in {53, 5353}, q \in {1, 2, 10, 11, 20, 24, 100},
        z \in {<<>>, <<0>>, <<0, 0>>, BASE64_TEST_STRING} }

Packets ==
    HeaderPackets \cup TcpPackets \cup UdpPackets \cup HttpNearPackets
    \cup HttpFarPackets \cup HugePackets \cup TlsPackets \cup DnsPackets

---------------------------------------------------------------------------
(* File contents.  A content is a sequence of segments:                    *)
(*   [k |-> "lit", b |-> bytes]     the bytes b                            *)
(*   [k |-> "ramp", n |-> n, m |-> m]  the n bytes 0, 1, .., m-1, 0, 1, .. *)

Lit(b) == [k |-> "lit", b |-> b]

Ramp(n, m) == [k |-> "ramp", n |-> n, m |-> m]

SegLen(seg) == IF seg.k = "lit" THEN Len(seg.b) ELSE seg.n

\* byte j (from 0) of a segment
SegByte(seg, j) == IF seg.k = "lit" THEN seg.b[j + 1] ELSE j % seg.m

RECURSIVE CLenFrom(_, _)
CLenFrom(c, s) == IF s > Len(c) THEN 0 ELSE SegLen(c[s]) + CLenFrom(c, s + 1)

\* content.len()
CLen(c) == CLenFrom(c, 1)

RECURSIVE CByteFrom(_, _, _)
CByteFrom(c, s, i) ==
    IF i < SegLen(c[s]) THEN SegByte(c[s], i) ELSE CByteFrom(c, s + 1, i - SegLen(c[s]))

\* content[i]
CByte(c, i) == CByteFrom(c, 1, i)

\* how many of the bytes a..b-1 of a segment equal v
SegCount(seg, a, b, v) ==
    IF b <= a THEN 0
    ELSE IF seg.k = "lit" THEN Cardinality({j \in a..(b - 1) : seg.b[j + 1] = v})
    ELSE IF v >= seg.m THEN 0
    ELSE (b + seg.m - 1 - v) \div seg.m - (a + seg.m - 1 - v) \div seg.m

RECURSIVE FreqFrom(_, _, _, _, _, _)
FreqFrom(c, s, start, lo, hi, v) ==
    IF s > Len(c) THEN 0
    ELSE SegCount(c[s], Min(Max(lo - start, 0), SegLen(c[s])),
                        Min(Max(hi - start, 0), SegLen(c[s])), v)
         + FreqFrom(c, s + 1, start + SegLen(c[s]), lo, hi, v)

\* frequencies[v] after counting the bytes lo..hi-1 of the content
Freq(c, lo, hi, v) == FreqFrom(c, 1, 0, lo, hi, v)

\* content.windows(pat.len()).any(|w| w == pat), for a pattern that is not empty
Contains(c, pat) ==
    /\ Len(pat) <= CLen(c)
    /\ \E i \in 0..(CLen(c) - Len(pat)) : \A j \in 1..Len(pat) : CByte(c, i + j - 1) = pat[j]

---------------------------------------------------------------------------
(* Shannon entropy in fixed point: 1024 units are one bit.  The source      *)
(* computes in f64; the fixed-point value is within 5 units of it for the   *)
(* lengths used here, and no content of the model is nearer than that to a  *)
(* threshold the source tests.                                              *)

RECURSIVE FloorLog2(_)
FloorLog2(n) == IF n < 2 THEN 0 ELSE 1 + FloorLog2(n \div 2)

RECURSIVE Log2Frac(_, _)
\* the next k binary digits of log2 of x / 2^14, for x / 2^14 in [1, 2)
Log2Frac(x, k) ==
    IF k = 0 THEN 0
    ELSE LET y == (x * x) \div 2^14
         IN  IF y >= 2^15 THEN 2^(k - 1) + Log2Frac(y \div 2, k - 1)
             ELSE Log2Frac(y, k - 1)

\* 1024 * log2(n), rounded down, for 1 <= n < 2^17
Log2Fix(n) == 1024 * FloorLog2(n) + Log2Frac((n * 2^14) \div 2^FloorLog2(n), 10)

RECURSIVE SumFLogF(_, _, _, _, _)
\* the sum of f * log2(f) over the byte values v..w
SumFLogF(c, lo, hi, v, w) ==
    IF v = w
    THEN LET f == Freq(c, lo, hi, v) IN IF f > 0 THEN f * Log2Fix(f) ELSE 0
    ELSE SumFLogF(c, lo, hi, v, (v + w) \div 2) + SumFLogF(c, lo, hi, (v + w) \div 2 + 1, w)

\* calculate_entropy(&content[lo..hi]): -sum p * log2(p) = log2(len) - sum(f * log2 f) / len
calculate_entropy(c, lo, hi) ==
    IF hi <= lo THEN 0
    ELSE Log2Fix(hi - lo) - SumFLogF(c, lo, hi, 0, 255) \div (hi - lo)

---------------------------------------------------------------------------
(* scanner.rs: the detection stages *)

SIGNATURE_CONFIDENCE == 95
COMMAND_CONFIDENCE == 70
HIGH_ENTROPY_CONTENT_CONFIDENCE == 60
PACKER_CONFIDENCE == 80
ENTROPY_HIGH_SCORE == 90
ENTROPY_MODERATE_SCORE == 50
MALICIOUS_THRESHOLD == 50
EntropyMinLen == 256
ChunkLen == 256
HeuristicMinLen == 1024

\* Option<T>: <<>> is None, <<x>> is Some(x)
IsSome(o) == Len(o) = 1

suspicious_strings ==
    << [text |-> "cmd.exe", bytes |-> <<99,109,100,46,101,120,101>>, label |-> "SUSPICIOUS_COMMAND_cmd.exe"],
       [text |-> "powershell.exe", bytes |-> <<112,111,119,101,114,115,104,101,108,108,46,101,120,101>>, label |-> "SUSPICIOUS_COMMAND_powershell.exe"],
       [text |-> "net user", bytes |-> <<110,101,116,32,117,115,101,114>>, label |-> "SUSPICIOUS_COMMAND_net user"],
       [text |-> "reg add", bytes |-> <<114,101,103,32,97,100,100>>, label |-> "SUSPICIOUS_COMMAND_reg add"],
       [text |-> "schtasks", bytes |-> <<115,99,104,116,97,115,107,115>>, label |-> "SUSPICIOUS_COMMAND_schtasks"],
       [text |-> "bitsadmin", bytes |-> <<98,105,116,115,97,100,109,105,110>>, label |-> "SUSPICIOUS_COMMAND_bitsadmin"],
       [text |-> "certutil", bytes |-> <<99,101,114,116,117,116,105,108>>, label |-> "SUSPICIOUS_COMMAND_certutil"],
       [text |-> "mshta", bytes |-> <<109,115,104,116,97>>, label |-> "SUSPICIOUS_COMMAND_mshta"],
       [text |-> "rundll32", bytes |-> <<114,117,110,100,108,108,51,50>>, label |-> "SUSPICIOUS_COMMAND_rundll32"],
       [text |-> "wscript", bytes |-> <<119,115,99,114,105,112,116>>, label |-> "SUSPICIOUS_COMMAND_wscript"],
       [text |-> "cscript", bytes |-> <<99,115,99,114,105,112,116>>, label |-> "SUSPICIOUS_COMMAND_cscript"] >>

packer_signatures ==
    << [bytes |-> <<96, 232, 0, 0, 0, 0>>, label |-> "PACKER_DETECTED_0"],
       [bytes |-> <<77, 90, 144, 0, 3, 0>>, label |-> "PACKER_DETECTED_1"] >>

Finding(label, confidence) == [name |-> label, confidence |-> confidence]

RECURSIVE ScanStore(_, _, _)
\* the for loop of scan_with_signatures from entry i of the store on.  windows(0)
\* panics, so an empty pattern reached before any match ends the scan.
ScanStore(store, c, i) ==
    IF i > Len(store) THEN [panic |-> FALSE, found |-> <<>>]
    ELSE IF Len(store[i].pattern) = 0 THEN [panic |-> TRUE, found |-> <<>>]
    ELSE IF Contains(c, store[i].pattern)
         THEN [panic |-> FALSE, found |-> <<Finding(store[i].name, SIGNATURE_CONFIDENCE)>>]
    ELSE ScanStore(store, c, i + 1)

\* the order in which signatures.iter() yields the entries: that of the table
IterationOrder(store) == store

\* scan_with_signatures; store lists the entries in the map's iteration order
scan_with_signatures(store, c) == ScanStore(IterationOrder(store), c, 1)

RECURSIVE CommandFindings(_, _)
CommandFindings(c, i) ==
    IF i > Len(suspicious_strings) THEN <<>>
    ELSE (IF Contains(c, suspicious_strings[i].bytes)
          THEN <<Finding(suspicious_strings[i].label, COMMAND_CONFIDENCE)>> ELSE <<>>)
         \o CommandFindings(c, i + 1)

\* the 256-byte chunks of the content (the last one may be shorter) above 7.5 bits
high_entropy_count(c) ==
    Cardinality({ k \in 0..((CLen(c) + ChunkLen - 1) \div ChunkLen - 1) :
                    10 * calculate_entropy(c, k * ChunkLen, Min((k + 1) * ChunkLen, CLen(c)))
                        > 75 * 1024 })

RECURSIVE PackerFindings(_, _)
PackerFindings(c, i) ==
    IF i > Len(packer_signatures) THEN <<>>
    ELSE (IF Contains(c, packer_signatures[i].bytes)
          THEN <<Finding(packer_signatures[i].label, PACKER_CONFIDENCE)>> ELSE <<>>)
         \o PackerFindings(c, i + 1)

\* from_utf8_lossy keeps every ASCII byte and replaces the others by U+FFFD, so
\* an ASCII string occurs in the decoded text exactly where its bytes occur
perform_heuristic_analysis(c) ==
    CommandFindings(c, 1)
    \o (IF CLen(c) > HeuristicMinLen /\ high_entropy_count(c) > CLen(c) \div 1024
        THEN <<Finding("HIGH_ENTROPY_CONTENT", HIGH_ENTROPY_CONTENT_CONFIDENCE)>> ELSE <<>>)
    \o PackerFindings(c, 1)

\* normalized_entropy = entropy / 8.0, compared with 0.8 and 0.6
analyze_entropy(c) ==
    IF CLen(c) < EntropyMinLen THEN 0
    ELSE LET entropy == calculate_entropy(c, 0, CLen(c))
         IN  IF 10 * entropy > 8 * 8 * 1024 THEN ENTROPY_HIGH_SCORE
             ELSE IF 10 * entropy > 6 * 8 * 1024 THEN ENTROPY_MODERATE_SCORE
             ELSE 0

\* the loop with the comparison left out: every finding replaces the maximum
CombineHeuristics_no_compare(h, i, acc) ==
    IF i > Len(h) THEN acc
    ELSE [max_confidence |-> h[Len(h)].confidence,
          threat_name |-> IF IsSome(acc.threat_name) THEN acc.threat_name ELSE <<h[1].name>>,
          is_malicious |-> TRUE]

RECURSIVE CombineHeuristics_name_follows_max(_, _, _)
\* the loop with the name taken from every finding that raises the maximum
CombineHeuristics_name_follows_max(h, i, acc) ==
    IF i > Len(h) THEN acc
    ELSE CombineHeuristics_name_follows_max(h, i + 1,
            IF h[i].confidence > acc.max_confidence
            THEN [max_confidence |-> h[i].confidence,
                  threat_name |-> <<h[i].name>>,
                  is_malicious |-> TRUE]
            ELSE acc)

RECURSIVE CombineHeuristics(_, _, _)
\* the loop over heuristic_results; acc is (max_confidence, threat_name, is_malicious)
CombineHeuristics(h, i, acc) ==
    IF i > Len(h) THEN acc
    ELSE CombineHeuristics(h, i + 1,
            IF h[i].confidence > acc.max_confidence
            THEN [max_confidence |-> h[i].confidence,
                  threat_name |-> IF IsSome(acc.threat_name) THEN acc.threat_name
                                  ELSE <<h[i].name>>,
                  is_malicious |-> TRUE]
            ELSE acc)

\* combine_scan_results up to the threshold test
FuseAll(signature_result, heuristic_results, entropy_score) ==
    LET start == [max_confidence |-> 0, threat_name |-> <<>>, is_malicious |-> FALSE]
        sig == IF IsSome(signature_result)
               THEN [max_confidence |-> Max(0, signature_result[1].confidence),
                     threat_name |-> <<signature_result[1].name>>,
                     is_malicious |-> TRUE]
               ELSE start
        heur == CombineHeuristics(heuristic_results, 1, sig)
    IN  IF entropy_score > heur.max_confidence
        THEN [max_confidence |-> entropy_score,
              threat_name |-> IF IsSome(heur.threat_name) THEN heur.threat_name
                              ELSE <<"HIGH_ENTROPY_SUSPICIOUS">>,
              is_malicious |-> TRUE]
        ELSE heur

\* the threshold test with > in place of >=
combine_scan_results_strict_threshold(signature_result, heuristic_results, entropy_score) ==
    LET all == FuseAll(signature_result, heuristic_results, entropy_score)
    IN  IF all.max_confidence > MALICIOUS_THRESHOLD
        THEN [is_malicious |-> TRUE, threat_name |-> all.threat_name,
              confidence |-> all.max_confidence]
        ELSE [is_malicious |-> FALSE, threat_name |-> <<>>, confidence |-> all.max_confidence]

combine_scan_results(signature_result, heuristic_results, entropy_score) ==
    LET all == FuseAll(signature_result, heuristic_results, entropy_score)
    IN  IF all.max_confidence >= MALICIOUS_THRESHOLD
        THEN [is_malicious |-> TRUE, threat_name |-> all.threat_name,
              confidence |-> all.max_confidence]
        ELSE [is_malicious |-> FALSE, threat_name |-> <<>>, confidence |-> all.max_confidence]

---------------------------------------------------------------------------
(* scanner.rs: the signature store and the scan of one file *)

\* the set of all orders in which a map with the entries S may iterate
Orders(S) ==
    { q \in [1..Cardinality(S) -> S] : \A i, j \in 1..Cardinality(S) : q[i] = q[j] => i = j }

Entries(store) == { store[i] : i \in DOMAIN store }

Names(store) == { store[i].name : i \in DOMAIN store }

Entry(name, pattern) == [name |-> name, pattern |-> pattern]

RECURSIVE InsertAll_keep_existing(_, _, _)
\* entry(key).or_insert(value) in place of insert: a name keeps the pattern it has
InsertAll_keep_existing(E, kv, i) ==
    IF i > Len(kv) THEN E
    ELSE InsertAll_keep_existing(
            IF \E e \in E : e.name = kv[i].name THEN E
            ELSE E \cup {Entry(kv[i].name, kv[i].pattern)},
            kv, i + 1)

RECURSIVE InsertAll(_, _, _)
\* HashMap::insert of the pairs kv[i..] into the entries E: the last value of a key stays
InsertAll(E, kv, i) ==
    IF i > Len(kv) THEN E
    ELSE InsertAll({e \in E : e.name # kv[i].name} \cup {Entry(kv[i].name, kv[i].pattern)},
                   kv, i + 1)

\* the stores a HashMap may be after the inserts: a value that replaces one keeps
\* its place; a new key may land anywhere and may rehash the whole table
Inserted(store, kv) ==
    IF \A i \in DOMAIN kv : kv[i].name \in Names(store)
    THEN { [i \in DOMAIN store |->
              LET E == InsertAll(Entries(store), kv, 1)
              IN  CHOOSE e \in E : e.name = store[i].name] }
    ELSE Orders(InsertAll(Entries(store), kv, 1))

\* a file as one scan meets it: what path.exists() says, what fs::read does
File(path, exists, read, content) ==
    [path |-> path, exists |-> exists, read |-> read, content |-> content]

ScanResult(file_path, is_malicious, threat_name, confidence, scan_time_ms) ==
    [file_path |-> file_path, is_malicious |-> is_malicious, threat_name |-> threat_name,
     confidence |-> confidence, scan_time_ms |-> scan_time_ms]

NoResult == ScanResult("", FALSE, <<>>, 0, 0)

\* a parser that takes every JSON map and drops what does not fit
ParsesAsSignatures_any_json(payload) == payload.kind = "json"

\* serde_json::from_str::<HashMap<String, Vec<u8>>>: every element must be a u8
ParsesAsSignatures(payload) ==
    /\ payload.kind = "json"
    /\ \A i \in DOMAIN payload.entries :
          \A j \in DOMAIN payload.entries[i].pattern :
              payload.entries[i].pattern[j] \in 0..255

---------------------------------------------------------------------------
(* the inputs of the scanner *)

\* how long a scan may take, in ms
MaxElapsedMs == 1

TROJAN_PATTERN == <<144, 144, 144>>

RANSOMWARE_PATTERN == <<232, 0, 0, 0, 0>>

CMD == <<99, 109, 100, 46, 101, 120, 101>>

POWERSHELL == <<112, 111, 119, 101, 114, 115, 104, 101, 108, 108, 46, 101, 120, 101>>

JsonMap(entries) == [kind |-> "json", entries |-> entries]

Payloads ==
    { [kind |-> "not_utf8", entries |-> <<>>],
      [kind |-> "not_json", entries |-> <<>>],
      JsonMap(<<>>),
      JsonMap(<<Entry("custom", <<65, 66>>)>>),
      JsonMap(<<Entry("custom", <<>>)>>),
      JsonMap(<<Entry("trojan_example", <<104, 101>>)>>),
      JsonMap(<<Entry("custom", <<65, 256>>)>>),
      JsonMap(<<Entry("custom", <<65, 66>>), Entry("other", <<300>>)>>) }

Contents ==
    { <<Lit(<<104, 101, 108, 108, 111>>)>>,
      <<Lit(<<65, 66, 67>>)>>,
      <<Lit(<<65>> \o TROJAN_PATTERN \o <<66>>)>>,
      <<Lit(TROJAN_PATTERN \o RANSOMWARE_PATTERN)>>,
      <<Lit(CMD \o <<32, 47, 99>>)>>,
      <<Lit(POWERSHELL \o <<32>> \o CMD)>>,
      <<Lit(<<77, 90, 144, 0, 3, 0>>)>>,
      <<Lit(CMD \o <<32, 77, 90, 144, 0, 3, 0>>)>>,
      <<Lit(<<96, 232, 0, 0, 0, 0>>)>>,
      <<Ramp(255, 256)>>,
      <<Ramp(256, 256)>>,
      <<Ramp(256, 64)>>,
      <<Ramp(256, 16)>>,
      <<Lit(CMD), Ramp(512, 64)>>,
      <<Ramp(1024, 256)>>,
      <<Ramp(1280, 256)>>,
      <<Ramp(512, 256), Ramp(768, 1)>>,
      <<Lit(CMD), Ramp(1280, 256)>> }

Files ==
    { File("/data/sample.exe", TRUE, "ok", c) : c \in Contents }
    \cup { File("/data/missing.exe", FALSE, "not_found", <<>>),
           File("/data/locked.exe", TRUE, "denied", <<>>),
           File("/data/removed.exe", TRUE, "not_found", <<>>) }

\* scan_file_internal: kind is "ok" (Ok(result)), "err" (Err) or "panic"; poisons
\* tells whether the call leaves the store's mutex poisoned
\* The heuristic and entropy stages read nothing but the content; their
\* results for the contents of the model are tabulated once.
heuristic_result == [c \in Contents |-> perform_heuristic_analysis(c)]

entropy_result == [c \in Contents |-> analyze_entropy(c)]

\* a scan whose iteration order is drawn anew for every scan: last to first
\* in a scan that takes an odd number of ms
scan_file_internal_order_per_scan(store, lock_poisoned, f, t) ==
    IF ~f.exists
    THEN [kind |-> "ok", poisons |-> FALSE,
          result |-> ScanResult(f.path, FALSE, <<"FILE_NOT_FOUND">>, 0, t)]
    ELSE IF f.read # "ok" THEN [kind |-> "err", poisons |-> FALSE, result |-> NoResult]
    ELSE IF lock_poisoned THEN [kind |-> "panic", poisons |-> FALSE, result |-> NoResult]
    ELSE LET order == IF t % 2 = 1 THEN [i \in DOMAIN store |-> store[Len(store) + 1 - i]]
                      ELSE store
             signature_result == scan_with_signatures(order, f.content)
             fused == combine_scan_results(signature_result.found,
                                           heuristic_result[f.content],
                                           entropy_result[f.content])
         IN  IF signature_result.panic
             THEN [kind |-> "panic", poisons |-> TRUE, result |-> NoResult]
             ELSE [kind |-> "ok", poisons |-> FALSE,
                   result |-> ScanResult(f.path, fused.is_malicious, fused.threat_name,
                                         fused.confidence, t)]

scan_file_internal(store, lock_poisoned, f, t) ==
    IF ~f.exists
    THEN [kind |-> "ok", poisons |-> FALSE,
          result |-> ScanResult(f.path, FALSE, <<"FILE_NOT_FOUND">>, 0, t)]
    ELSE IF f.read # "ok" THEN [kind |-> "err", poisons |-> FALSE, result |-> NoResult]
    ELSE IF lock_poisoned THEN [kind |-> "panic", poisons |-> FALSE, result |-> NoResult]
    ELSE LET signature_result == scan_with_signatures(store, f.content)
             fused == combine_scan_results(signature_result.found,
                                           heuristic_result[f.content],
                                           entropy_result[f.content])
         IN  IF signature_result.panic
             THEN [kind |-> "panic", poisons |-> TRUE, result |-> NoResult]
             ELSE [kind |-> "ok", poisons |-> FALSE,
                   result |-> ScanResult(f.path, fused.is_malicious, fused.threat_name,
                                         fused.confidence, t)]

---------------------------------------------------------------------------
(* the entry points of a scan and what their caller gets *)

\* hypervisor_scan_file: a boxed ScanResult; an Err of scan_file_internal becomes
\* a result of its own
hypervisor_scan_file(out, f, t) ==
    IF out.kind = "panic" THEN [signal |-> "panic"]
    ELSE IF out.kind = "ok" THEN [signal |-> "result", result |-> out.result]
    ELSE [signal |-> "result", result |-> ScanResult(f.path, FALSE, <<>>, 0, t)]

\* the JNI scanFile wrapper: the result as JSON text, threat_name None printed
\* as "None"; null for an Err
Java_MalwareScanner_scanFile(out) ==
    IF out.kind = "panic" THEN [signal |-> "panic"]
    ELSE IF out.kind = "ok"
    THEN [signal |-> "json",
          result |-> [out.result EXCEPT
                         !.threat_name = IF IsSome(@) THEN @ ELSE <<"None">>]]
    ELSE [signal |-> "null"]

\* a direct caller of scan_file_internal sees the Result itself
scan_file_internal_caller(out) ==
    IF out.kind = "panic" THEN [signal |-> "panic"]
    ELSE IF out.kind = "ok" THEN [signal |-> "Ok", result |-> out.result]
    ELSE [signal |-> "Err"]

EntryPoints == {"scan_file_internal", "hypervisor_scan_file", "scanFile"}

EntryOutput(entry, out, f, t) ==
    CASE entry = "hypervisor_scan_file" -> hypervisor_scan_file(out, f, t)
      [] entry = "scanFile"             -> Java_MalwareScanner_scanFile(out)
      [] OTHER                          -> scan_file_internal_caller(out)

---------------------------------------------------------------------------
(* the inspector as a state machine *)

NoPacket == [len |-> 0, fill |-> 0, word |-> <<>>, wordAt |-> 0, ov |-> <<>>]

NoVerdict == Ret("none", <<>>, {})

NoCall == [op |-> "none"]

NoScan == [some |-> FALSE]

ScanThreads == {"scan1", "scan2"}

UpdateThreads == {"update1"}

InitThreads == {"init1"}

WriterThreads == UpdateThreads \cup InitThreads

Threads == ScanThreads \cup WriterThreads

NoLocals == [i |-> 0, entries |-> <<>>, content |-> <<>>, observed |-> <<>>, ret |-> 0]

\* the entries M with those of kv written over them: a name of kv gets the
\* pattern that kv gives it last
Overwrite(M, kv) ==
    { e \in M : \A i \in DOMAIN kv : kv[i].name # e.name }
    \cup { kv[i] : i \in { k \in DOMAIN kv : \A j \in DOMAIN kv : j > k => kv[j].name # kv[k].name } }

NoFusion == [sig |-> <<>>, heur |-> <<>>, ent |-> 0, added |-> <<>>, before |-> 0,
             out |-> [is_malicious |-> FALSE, threat_name |-> <<>>, confidence |-> 0]]

\* PacketInspector::new
InspectorInit ==
    /\ threat_ips = {}
    /\ pc = "idle"
    /\ packet = NoPacket
    /\ verdict = NoVerdict
    /\ seen = {}

\* lazy_static MALWARE_SIGNATURES: an empty map behind a fresh mutex
ScannerStart ==
    /\ signatures = <<>>
    /\ poisoned = FALSE
    /\ spc = "idle"
    /\ call = NoCall
    /\ mentioned = {}
    /\ last_scan = NoScan

\* no thread is inside the scanner
ThreadsStart ==
    /\ lock = "free"
    /\ tpc = [t \in Threads |-> "idle"]
    /\ tloc = [t \in Threads |-> NoLocals]
    /\ committed = <<>>

Init == InspectorInit /\ ScannerStart /\ ThreadsStart /\ fusion = NoFusion

\* the threat set is provided when the engine is set up
LoadThreatIps ==
    /\ pc = "idle"
    /\ \E s \in ThreatSets : threat_ips' = s
    /\ UNCHANGED <<pc, packet, verdict, seen, scanner_vars, fusion, conc_vars>>

\* one call of analyze; a panic unwinds the calling thread
Analyze ==
    /\ pc = "idle"
    /\ \E p \in Packets :
          /\ packet' = p
          /\ verdict' = analyze(threat_ips, p)
          /\ pc' = IF verdict'.panic THEN "panicked" ELSE "done"
    /\ UNCHANGED <<threat_ips, seen, scanner_vars, fusion, conc_vars>>

\* the caller takes the code and is ready for the next packet
Return ==
    /\ pc = "done"
    /\ pc' = "idle"
    /\ packet' = NoPacket
    /\ verdict' = NoVerdict
    /\ UNCHANGED <<threat_ips, seen, scanner_vars, fusion, conc_vars>>

Next == LoadThreatIps \/ Analyze \/ Return

Spec == Init /\ [][Next]_vars

---------------------------------------------------------------------------
(* a caller that keeps what the detections returned, with the empty threat   *)
(* set of PacketInspector::new                                               *)

RuleVerdict(rule) ==
    CASE rule = "threat_ip"       -> "MaliciousDestination"
      [] rule = "c2_port"         -> "MaliciousDestination"
      [] rule = "http_sensitive"  -> "SensitiveDataExposure"
      [] rule = "http_large"      -> "SuspiciousLargeTransfer"
      [] rule = "tls_fingerprint" -> "MaliciousTlsFingerprint"
      [] rule = "large_udp"       -> "SuspiciousLargeTransfer"
      [] rule = "dns_tunneling"   -> "DnsTunnelingSuspected"
      [] OTHER                    -> "Allow"

AnalyzeAndKeep ==
    /\ pc = "idle"
    /\ \E p \in HeaderPackets \cup UdpPackets :
          /\ packet' = p
          /\ verdict' = analyze(threat_ips, p)
          /\ pc' = IF verdict'.panic THEN "panicked" ELSE "done"
          /\ seen' = seen \cup {<<RuleVerdict(verdict'.rule), verdict'.ret>>}
    /\ UNCHANGED <<threat_ips, scanner_vars, fusion, conc_vars>>

HistoryNext == AnalyzeAndKeep \/ Return

HistorySpec == Init /\ [][HistoryNext]_vars

---------------------------------------------------------------------------
(* the scanner as a state machine: one caller, one call at a time *)

\* a panic inside an extern "C" function aborts the process or, where the build
\* lets it unwind, ends the calling thread
PanicOutcomes == {"panicked", "aborted"}

BuiltinSignatures ==
    <<Entry("trojan_example", TROJAN_PATTERN), Entry("ransomware_pattern", RANSOMWARE_PATTERN)>>

\* hypervisor_scanner_init
ScannerInit ==
    /\ spc = "idle"
    /\ IF poisoned
       THEN /\ spc' \in PanicOutcomes
            /\ call' = [op |-> "init", ret |-> -1, before |-> signatures]
            /\ UNCHANGED <<signatures, mentioned, last_scan>>
       ELSE /\ signatures' \in Inserted(signatures, BuiltinSignatures)
            /\ spc' = "done"
            /\ call' = [op |-> "init", ret |-> 0, before |-> signatures]
            /\ mentioned' = Overwrite(mentioned, BuiltinSignatures)
            /\ last_scan' = NoScan
    /\ UNCHANGED <<poisoned, inspector_vars, fusion, conc_vars>>

\* hypervisor_update_signatures
UpdateSignatures ==
    /\ spc = "idle"
    /\ \E payload \in Payloads :
          IF ~ParsesAsSignatures(payload)
          THEN /\ call' = [op |-> "update", payload |-> payload, ret |-> -1, before |-> signatures]
               /\ spc' = "done"
               /\ UNCHANGED <<signatures, mentioned, last_scan>>
          ELSE IF poisoned
          THEN /\ call' = [op |-> "update", payload |-> payload, ret |-> -1, before |-> signatures]
               /\ spc' \in PanicOutcomes
               /\ UNCHANGED <<signatures, mentioned, last_scan>>
          ELSE /\ signatures' \in Inserted(signatures, payload.entries)
               /\ call' = [op |-> "update", payload |-> payload, ret |-> 0, before |-> signatures]
               /\ spc' = "done"
               /\ mentioned' = Overwrite(mentioned, payload.entries)
               /\ last_scan' = NoScan
    /\ UNCHANGED <<poisoned, inspector_vars, fusion, conc_vars>>

\* one scan, through one of the entry points E, of one of the files F; keep tells
\* whether the caller remembers the scan to compare the next one with it
ScanFileOf(F, E, keep) ==
    /\ spc = "idle"
    /\ \E f \in F, t \in 0..MaxElapsedMs :
          LET out == scan_file_internal(signatures, poisoned, f, t)
          IN  /\ \E entry \in E :
                    call' = [op |-> "scan", file |-> f, out |-> out, entry |-> entry, t |-> t,
                             visible |-> EntryOutput(entry, out, f, t),
                             before |-> signatures, prev |-> last_scan]
              /\ last_scan' = IF keep THEN [some |-> TRUE, file |-> f, out |-> out] ELSE last_scan
              /\ spc' \in IF out.kind = "panic" THEN PanicOutcomes ELSE {"done"}
              /\ poisoned' = (poisoned \/ out.poisons)
    /\ UNCHANGED <<signatures, mentioned, inspector_vars, fusion, conc_vars>>

\* a scan of any file through any entry point
ScanFile == ScanFileOf(Files, EntryPoints, FALSE)

\* hypervisor_get_scan_stats
GetScanStats ==
    /\ spc = "idle"
    /\ IF poisoned
       THEN /\ spc' \in PanicOutcomes
            /\ call' = [op |-> "stats", stats |-> <<>>]
       ELSE /\ spc' = "done"
            /\ call' = [op |-> "stats",
                        stats |-> <<[total_signatures |-> Len(signatures),
                                     scan_engine_version |-> 1]>>]
    /\ UNCHANGED <<signatures, poisoned, mentioned, last_scan, inspector_vars, fusion, conc_vars>>

\* the caller is ready for its next call
ScanReturn ==
    /\ spc = "done"
    /\ spc' = "idle"
    /\ call' = NoCall
    /\ UNCHANGED <<signatures, poisoned, mentioned, last_scan, inspector_vars, fusion, conc_vars>>

\* a panic ends only the thread it happened on; another caller goes on
NextCaller ==
    /\ spc = "panicked"
    /\ spc' = "idle"
    /\ call' = NoCall
    /\ UNCHANGED <<signatures, poisoned, mentioned, last_scan, inspector_vars, fusion, conc_vars>>

ScanNext ==
    ScannerInit \/ UpdateSignatures \/ ScanFile \/ GetScanStats \/ ScanReturn \/ NextCaller

ScanSpec == Init /\ [][ScanNext]_vars

---------------------------------------------------------------------------
(* a caller that scans the same few files again and again and compares *)

RescanFiles ==
    { File("/data/sample.exe", TRUE, "ok", <<Lit(TROJAN_PATTERN \o RANSOMWARE_PATTERN)>>),
      File("/data/sample.exe", TRUE, "ok", <<Lit(CMD \o <<32, 77, 90, 144, 0, 3, 0>>)>>),
      File("/data/notes.txt", TRUE, "ok", <<Lit(<<104, 101, 108, 108, 111>>)>>),
      File("/data/missing.exe", FALSE, "not_found", <<>>) }

Rescan == ScanFileOf(RescanFiles, {"scan_file_internal"}, TRUE)

RescanNext == ScannerInit \/ UpdateSignatures \/ Rescan \/ ScanReturn \/ NextCaller

RescanSpec == Init /\ [][RescanNext]_vars

---------------------------------------------------------------------------
(* threads in scan_with_signatures, hypervisor_scanner_init and             *)
(* hypervisor_update_signatures at the same time, one step per entry         *)

\* a lock() that does not wait
MutexFree_unguarded(holder) == TRUE

\* Mutex::lock returns when no thread holds the mutex
MutexFree(holder) == holder = "free"

ConcContents ==
    { <<Lit(<<65, 66, 67>>)>>,
      <<Lit(<<104, 101, 108, 108, 111>>)>> }

ConcPayloads ==
    { [kind |-> "not_json", entries |-> <<>>],
      JsonMap(<<Entry("custom", <<65, 66>>), Entry("trojan_example", <<104, 101>>)>>),
      JsonMap(<<Entry("custom", <<>>)>>) }

\* scan_with_signatures: MALWARE_SIGNATURES.lock().unwrap()
ScanLock(t) ==
    /\ tpc[t] = "idle"
    /\ MutexFree(lock)
    /\ IF poisoned
       THEN /\ tpc' = [tpc EXCEPT ![t] = "panicked"]
            /\ UNCHANGED <<lock, tloc>>
       ELSE /\ \E c \in ConcContents :
                  tloc' = [tloc EXCEPT ![t] = [NoLocals EXCEPT !.i = 1, !.content = c]]
            /\ lock' = t
            /\ tpc' = [tpc EXCEPT ![t] = "iterating"]
    /\ UNCHANGED <<signatures, poisoned, committed, caller_vars, inspector_vars, fusion>>

\* one turn of the for loop of scan_with_signatures; the guard is dropped on
\* return and on unwinding, and unwinding poisons the mutex
ScanStep(t) ==
    /\ tpc[t] = "iterating"
    /\ LET i == tloc[t].i IN
       IF i > Len(signatures)
       THEN /\ tpc' = [tpc EXCEPT ![t] = "returned"]
            /\ lock' = "free"
            /\ UNCHANGED <<tloc, poisoned>>
       ELSE LET e == signatures[i]
                obs == Append(tloc[t].observed, e)
            IN  IF Len(e.pattern) = 0
                THEN /\ tpc' = [tpc EXCEPT ![t] = "panicked"]
                     /\ tloc' = [tloc EXCEPT ![t].observed = obs]
                     /\ lock' = "free"
                     /\ poisoned' = TRUE
                ELSE IF Contains(tloc[t].content, e.pattern)
                THEN /\ tpc' = [tpc EXCEPT ![t] = "returned"]
                     /\ tloc' = [tloc EXCEPT ![t].observed = obs, ![t].ret = 1]
                     /\ lock' = "free"
                     /\ UNCHANGED poisoned
                ELSE /\ tloc' = [tloc EXCEPT ![t].observed = obs, ![t].i = i + 1]
                     /\ UNCHANGED <<tpc, lock, poisoned>>
    /\ UNCHANGED <<signatures, committed, caller_vars, inspector_vars, fusion>>

\* hypervisor_update_signatures up to the match on the parse result
UpdateParse(t) ==
    /\ tpc[t] = "idle"
    /\ \E payload \in ConcPayloads :
          IF ParsesAsSignatures(payload)
          THEN /\ tpc' = [tpc EXCEPT ![t] = "parsed"]
               /\ tloc' = [tloc EXCEPT ![t] = [NoLocals EXCEPT !.entries = payload.entries]]
          ELSE /\ tpc' = [tpc EXCEPT ![t] = "returned"]
               /\ tloc' = [tloc EXCEPT ![t] = [NoLocals EXCEPT !.ret = -1]]
    /\ UNCHANGED <<signatures, poisoned, lock, committed, caller_vars, inspector_vars, fusion>>

\* hypervisor_scanner_init up to its lock: the two built-in entries
InitEnter(t) ==
    /\ tpc[t] = "idle"
    /\ tpc' = [tpc EXCEPT ![t] = "parsed"]
    /\ tloc' = [tloc EXCEPT ![t] = [NoLocals EXCEPT !.entries = BuiltinSignatures]]
    /\ UNCHANGED <<signatures, poisoned, lock, committed, caller_vars, inspector_vars, fusion>>

\* MALWARE_SIGNATURES.lock().unwrap() of an update or an init
UpdateLock(t) ==
    /\ tpc[t] = "parsed"
    /\ MutexFree(lock)
    /\ IF poisoned
       THEN /\ tpc' = [tpc EXCEPT ![t] = "panicked"]
            /\ UNCHANGED <<lock, tloc>>
       ELSE /\ lock' = t
            /\ tpc' = [tpc EXCEPT ![t] = "extending"]
            /\ tloc' = [tloc EXCEPT ![t].i = 1]
    /\ UNCHANGED <<signatures, poisoned, committed, caller_vars, inspector_vars, fusion>>

\* one insert of signatures.extend(new_signatures) / signatures.insert(..); after
\* the last one the guard is dropped and the call returns 0
UpdateStep(t) ==
    /\ tpc[t] = "extending"
    /\ LET i == tloc[t].i IN
       IF i > Len(tloc[t].entries)
       THEN /\ tpc' = [tpc EXCEPT ![t] = "returned"]
            /\ lock' = "free"
            /\ committed' = signatures
            /\ UNCHANGED <<signatures, tloc>>
       ELSE /\ signatures' \in Inserted(signatures, <<tloc[t].entries[i]>>)
            /\ tloc' = [tloc EXCEPT ![t].i = i + 1]
            /\ UNCHANGED <<tpc, lock, committed>>
    /\ UNCHANGED <<poisoned, caller_vars, inspector_vars, fusion>>

\* the thread is back at its caller and may call again
ThreadReturn(t) ==
    /\ tpc[t] = "returned"
    /\ tpc' = [tpc EXCEPT ![t] = "idle"]
    /\ tloc' = [tloc EXCEPT ![t] = NoLocals]
    /\ UNCHANGED <<signatures, poisoned, lock, committed, caller_vars, inspector_vars, fusion>>

ConcNext ==
    \/ \E t \in ScanThreads : ScanLock(t) \/ ScanStep(t) \/ ThreadReturn(t)
    \/ \E t \in UpdateThreads : UpdateParse(t)
    \/ \E t \in InitThreads : InitEnter(t)
    \/ \E t \in WriterThreads : UpdateLock(t) \/ UpdateStep(t) \/ ThreadReturn(t)

ConcSpec == Init /\ [][ConcNext]_vars

---------------------------------------------------------------------------
(* combine_scan_results taken alone, on inputs of every shape *)

\* how many heuristic findings a fused scan may have
MaxFindings == 3

FindingChoices ==
    { Finding("SUSPICIOUS_COMMAND_cmd.exe", COMMAND_CONFIDENCE),
      Finding("HIGH_ENTROPY_CONTENT", HIGH_ENTROPY_CONTENT_CONFIDENCE),
      Finding("PACKER_DETECTED_1", PACKER_CONFIDENCE),
      Finding("WEAK_HINT", 30) }

SignatureChoices == { <<>>, <<Finding("trojan_example", SIGNATURE_CONFIDENCE)>> }

EntropyChoices == {0, ENTROPY_MODERATE_SCORE, ENTROPY_HIGH_SCORE}

FusionInit ==
    /\ InspectorInit /\ ScannerStart /\ ThreadsStart
    /\ \E s \in SignatureChoices, e \in EntropyChoices :
          fusion = [sig |-> s, heur |-> <<>>, ent |-> e, added |-> <<>>, before |-> 0,
                    out |-> combine_scan_results(s, <<>>, e)]

\* one more heuristic finding, and the fusion run again
AddFinding ==
    /\ Len(fusion.heur) < MaxFindings
    /\ \E f \in FindingChoices :
          fusion' = [fusion EXCEPT
                        !.heur = Append(@, f),
                        !.added = <<f>>,
                        !.before = fusion.out.confidence,
                        !.out = combine_scan_results(fusion.sig, Append(fusion.heur, f),
                                                     fusion.ent)]
    /\ UNCHANGED <<inspector_vars, scanner_vars, conc_vars>>

FusionNext == AddFinding

FusionSpec == FusionInit /\ [][FusionNext]_vars

---------------------------------------------------------------------------
(* what the claims say about a finished call, read off the packet itself *)

Done == pc = "done"

InPath(f) == \E i \in DOMAIN verdict.path : verdict.path[i] = f

IsV4(p) == p.len >= 20 /\ Byte(p, 0) \div 16 = 4

DstIn(p, ips) == [hi |-> Byte(p, 16) * 256 + Byte(p, 17), lo |-> Byte(p, 18) * 256 + Byte(p, 19)] \in ips

SrcPort(p) == Byte(p, 20) * 256 + Byte(p, 21)

DstPort(p) == Byte(p, 22) * 256 + Byte(p, 23)

\* IPv4, destination outside the threat set, the given protocol, at least n bytes
Clean(p, proto, n) == IsV4(p) /\ ~DstIn(p, threat_ips) /\ Byte(p, 9) = proto /\ p.len >= n

HeaderLen(p) == (Byte(p, 0) % 16) * 4

\* where the TCP payload starts, when the data-offset byte is inside the packet
PayloadStart(p) == HeaderLen(p) + (Byte(p, HeaderLen(p) + 12) \div 16) * 4

Keywords == {KW_PASSWORD, KW_API_KEY, KW_TOKEN, KW_AUTHORIZATION}

Lower(b) == IF b \in 65..90 THEN b + 32 ELSE b

\* keyword k stands at index i of p, in any letter case
KeywordAt(p, k, i) == \A j \in 1..Len(k) : Lower(Byte(p, i + j - 1)) = k[j]

\* some keyword lies wholly inside the first 2048 payload bytes
KeywordInSample(p) ==
    /\ HeaderLen(p) + 12 < p.len
    /\ \E k \in Keywords :
          \E i \in PayloadStart(p)..(Min(p.len, PayloadStart(p) + 2048) - Len(k)) :
              KeywordAt(p, k, i)

\* TCP, clean destination, destination port outside the C2 set, a port equal to 80
HttpCase(p) ==
    /\ Clean(p, 6, 40)
    /\ DstPort(p) \notin {8080, 8443, 53, 5353, 1935, 9999, 22, 23}
    /\ (SrcPort(p) = 80 \/ DstPort(p) = 80)

\* C1: analyze returns for every byte sequence: no index or slice leaves the
\* packet and looks_like_base64 never divides by zero
C1_NoPanic == pc # "panicked" /\ ~verdict.panic

\* a 40-byte packet whose IHL nibble is 15 went through inspect_http and came back
C1_Witness ==
    /\ Done /\ packet.len = 40 /\ Byte(packet, 0) % 16 = 15
    /\ "inspect_http" \in verdict.short

\* C2: an IPv4 packet of 20 bytes or more whose destination is in the threat set
\* gets MaliciousDestination from the threat-set rule, before any transport or
\* payload inspection
C2_ThreatDestinationWins ==
    (Done /\ IsV4(packet) /\ DstIn(packet, threat_ips))
        => /\ verdict.ret = 1
           /\ verdict.rule = "threat_ip"
           /\ verdict.path = <<"analyze", "analyze_ipv4">>

\* a TCP packet too short for analyze_tcp, to a threat destination
C2_Witness ==
    /\ Done /\ IsV4(packet) /\ DstIn(packet, threat_ips)
    /\ Byte(packet, 9) = 6 /\ packet.len < 40 /\ verdict.ret = 1

\* C3: fail-open on truncation: Allow for packets under 20 bytes, for clean TCP
\* under 40 bytes, for clean UDP under 28 bytes, and whenever a sub-inspector that
\* ran found the packet too short for its offsets
C3_FailOpen ==
    Done =>
        /\ packet.len < 20 => verdict.ret = 0
        /\ (Clean(packet, 6, 20) /\ packet.len < 40) => verdict.ret = 0
        /\ (Clean(packet, 17, 20) /\ packet.len < 28) => verdict.ret = 0
        /\ ( /\ InPath("inspect_http")
             /\ (packet.len <= HeaderLen(packet) + 20 \/ packet.len <= PayloadStart(packet)) )
              => verdict.ret = 0
        /\ ( /\ InPath("inspect_tls")
             /\ (packet.len <= HeaderLen(packet) + 20 \/ packet.len <= PayloadStart(packet) + 5) )
              => verdict.ret = 0
        /\ (InPath("inspect_dns") /\ packet.len <= HeaderLen(packet) + 8) => verdict.ret = 0

\* a clean TCP packet under 40 bytes whose destination port is the C2 port 8080
C3_Witness ==
    /\ Done /\ Clean(packet, 6, 24) /\ packet.len < 40
    /\ DstPort(packet) = 8080 /\ verdict.ret = 0

\* C4: clean TCP of 40 bytes or more to a C2 port gets MaliciousDestination from
\* the port rule, before the HTTP and TLS sub-inspectors run
C4_C2PortFirst ==
    ( /\ Done /\ Clean(packet, 6, 40)
      /\ DstPort(packet) \in {8080, 8443, 53, 5353, 1935, 9999, 22, 23} )
        => /\ verdict.ret = 1
           /\ verdict.rule = "c2_port"
           /\ ~InPath("inspect_http") /\ ~InPath("inspect_tls")

\* source port 443, destination port 22
C4_Witness ==
    /\ Done /\ Clean(packet, 6, 40)
    /\ SrcPort(packet) = 443 /\ DstPort(packet) = 22 /\ verdict.ret = 1

\* C5 as stated: in the HTTP case the verdict is SensitiveDataExposure exactly
\* when a keyword lies inside the first 2048 bytes of the payload
C5_Original ==
    (Done /\ HttpCase(packet))
        => (verdict.ret = 2 <=> KeywordInSample(packet))

\* C5 amended: the same, for packets longer than (IHL nibble x 4) + 20 bytes
C5_SensitiveIffKeyword ==
    (Done /\ HttpCase(packet) /\ packet.len > HeaderLen(packet) + 20)
        => (verdict.ret = 2 <=> KeywordInSample(packet))

\* a mixed-case keyword that ends exactly with the 2048-byte sample
C5_Witness ==
    /\ Done /\ HttpCase(packet) /\ packet.len > HeaderLen(packet) + 20
    /\ packet.wordAt + Len(packet.word) = PayloadStart(packet) + 2048
    /\ packet.word = <<84,111,75,101,78>>
    /\ verdict.ret = 2

\* C6: in the HTTP case a payload of more than 1 MiB without keyword in its first
\* 2048 bytes makes the HTTP sub-inspector answer SuspiciousLargeTransfer
C6_LargePayload ==
    ( /\ Done /\ HttpCase(packet) /\ packet.len > HeaderLen(packet) + 20
      /\ packet.len - PayloadStart(packet) > 1048576
      /\ ~KeywordInSample(packet) )
        => /\ InPath("inspect_http")
           /\ verdict.rule = "http_large"
           /\ verdict.ret = 3

\* C7: clean UDP of 28 bytes or more to port 53 or 5353 with more than 100 bytes
\* after offset IHL x 4 + 8 gets DnsTunnelingSuspected from inspect_dns; the
\* 512-byte rule is not consulted
C7_LongDnsQuery ==
    ( /\ Done /\ Clean(packet, 17, 28)
      /\ DstPort(packet) \in {53, 5353}
      /\ packet.len - (HeaderLen(packet) + 8) > 100 )
        => /\ verdict.ret = 3
           /\ verdict.rule = "dns_tunneling"
           /\ InPath("inspect_dns") /\ ~InPath("large_udp_rule")

\* a 150-byte query of zero bytes (nothing base64-like in it)
C7_Witness ==
    /\ Done /\ Clean(packet, 17, 28) /\ DstPort(packet) = 53
    /\ packet.len = HeaderLen(packet) + 8 + 150 /\ packet.fill = 0
    /\ verdict.ret = 3

\* C8: the returned value identifies one verdict: two detections that stand for
\* different verdicts never return the same value
C8_CodeIdentifiesVerdict ==
    \A a, b \in seen : a[1] # b[1] => a[2] # b[2]

---------------------------------------------------------------------------
(* what the claims say about a scan and about the fusion *)

ScanReturned == spc = "done" /\ call.op = "scan" /\ call.out.kind = "ok"

\* C9: every ScanResult that scan_file_internal returns has a confidence in
\* [0, 1], is_malicious exactly when the confidence is at least 0.5, and a threat
\* name exactly when is_malicious; the file-not-found result alone carries the
\* name FILE_NOT_FOUND with is_malicious false
C9_ResultInvariant ==
    ScanReturned =>
        LET r == call.out.result IN
        /\ r.confidence >= 0 /\ r.confidence <= 100
        /\ r.is_malicious <=> r.confidence >= 50
        /\ IF call.file.exists
           THEN IsSome(r.threat_name) <=> r.is_malicious
           ELSE r.threat_name = <<"FILE_NOT_FOUND">> /\ ~r.is_malicious

\* a scan whose fused confidence is exactly 0.5: malicious, and named
C9_Witness ==
    /\ ScanReturned
    /\ call.out.result.confidence = 50
    /\ call.out.result.is_malicious
    /\ call.out.result.threat_name = <<"HIGH_ENTROPY_SUSPICIOUS">>

SetMax(S) == CHOOSE x \in S : \A y \in S : y <= x

\* the greatest of 0, the signature confidence, the heuristic confidences, the entropy score
MaxConfidence(sig, heur, ent) ==
    SetMax({0, ent} \cup {sig[i].confidence : i \in DOMAIN sig}
                    \cup {heur[i].confidence : i \in DOMAIN heur})

Reordered(heur, q) == [i \in DOMAIN heur |-> heur[q[i]]]

\* C10: the fused confidence is the maximum of the signature confidence, the
\* heuristic confidences and the entropy score, whatever the order of the
\* findings; one more finding above the maximum raises it to that finding's
\* confidence, one at or below it changes nothing
C10_FusionIsMaximum ==
    /\ fusion.out.confidence = MaxConfidence(fusion.sig, fusion.heur, fusion.ent)
    /\ \A q \in Orders(DOMAIN fusion.heur) :
          combine_scan_results(fusion.sig, Reordered(fusion.heur, q), fusion.ent).confidence
              = fusion.out.confidence
    /\ IsSome(fusion.added) =>
          fusion.out.confidence =
              IF fusion.added[1].confidence > fusion.before
              THEN fusion.added[1].confidence ELSE fusion.before

\* a finding of 0.8 added to a scan that stood at 0.6, and one of 0.3 added to
\* a scan that stood at 0.7
C10_Witness ==
    /\ IsSome(fusion.added)
    /\ \/ fusion.added[1].confidence = 80 /\ fusion.before = 60 /\ fusion.out.confidence = 80
       \/ fusion.added[1].confidence = 30 /\ fusion.before = 70 /\ fusion.out.confidence = 70

---------------------------------------------------------------------------
(* what the claims say about the name a scan reports *)

\* pattern pat occurs in content c; the empty pattern occurs everywhere
Occurs(c, pat) == Len(pat) = 0 \/ Contains(c, pat)

\* the entries of the store whose pattern occurs in c
Matching(store, c) == { e \in Entries(store) : Occurs(c, e.pattern) }

\* the place of a heuristic label in the order of emission
EmissionRank(label) ==
    IF \E i \in DOMAIN suspicious_strings : suspicious_strings[i].label = label
    THEN CHOOSE i \in DOMAIN suspicious_strings : suspicious_strings[i].label = label
    ELSE IF label = "HIGH_ENTROPY_CONTENT" THEN Len(suspicious_strings) + 1
    ELSE IF label = "PACKER_DETECTED_0" THEN Len(suspicious_strings) + 2
    ELSE Len(suspicious_strings) + 3

ScannedContent == ScanReturned /\ call.file.exists

\* C11: in a completed scan a stored pattern that occurs in the content gives
\* malicious, 0.95 and the name of an entry whose pattern occurs; without one the
\* name is the label of the first heuristic finding in emission order, whatever
\* finding has the confidence reported; without findings it is
\* HIGH_ENTROPY_SUSPICIOUS when the entropy score is 0.5 or more; else absent
C11_ThreatNameSelection ==
    ScannedContent =>
        LET r == call.out.result
            c == call.file.content
            h == heuristic_result[c]
            e == entropy_result[c]
        IN  /\ \A i, j \in DOMAIN h : i < j => EmissionRank(h[i].name) < EmissionRank(h[j].name)
            /\ IF Matching(signatures, c) # {}
               THEN /\ r.is_malicious /\ r.confidence = 95
                    /\ \E m \in Matching(signatures, c) : r.threat_name = <<m.name>>
               ELSE IF h # <<>>
               THEN /\ \E i \in DOMAIN h :
                          /\ r.threat_name = <<h[i].name>>
                          /\ \A j \in DOMAIN h : EmissionRank(h[i].name) <= EmissionRank(h[j].name)
                    /\ r.confidence = MaxConfidence(<<>>, h, e)
               ELSE IF e >= 50 THEN r.threat_name = <<"HIGH_ENTROPY_SUSPICIOUS">> /\ r.confidence = e
               ELSE r.threat_name = <<>>

\* cmd.exe and a packer header: the command names the threat, the packer's 0.8 is reported
C11_Witness ==
    /\ ScannedContent
    /\ Matching(signatures, call.file.content) = {}
    /\ call.out.result.threat_name = <<"SUSPICIOUS_COMMAND_cmd.exe">>
    /\ call.out.result.confidence = 80

---------------------------------------------------------------------------
(* what the claims say about files that are absent or cannot be read *)

ScanEnded == spc # "idle" /\ call.op = "scan"

\* the file is absent when the scan looks for it or when the scan reads it
AbsentForScan(f) == ~f.exists \/ f.read = "not_found"

\* C12: a scan of a path at which no file exists returns the completed result
\* FILE_NOT_FOUND (path echoed, not malicious, confidence 0.0), also when the
\* file goes away between the existence test and the read
C12_AbsentFileIsNotFound ==
    (ScanEnded /\ AbsentForScan(call.file)) =>
        /\ call.out.kind = "ok"
        /\ call.out.result.file_path = call.file.path
        /\ ~call.out.result.is_malicious
        /\ call.out.result.threat_name = <<"FILE_NOT_FOUND">>
        /\ call.out.result.confidence = 0

\* what an entry point hands its caller for a completed scan of a clean file
CleanOutput(entry, f, t) ==
    EntryOutput(entry, [kind |-> "ok", poisons |-> FALSE,
                        result |-> ScanResult(f.path, FALSE, <<>>, 0, t)], f, t)

\* C13: a scan of a file that exists and cannot be read hands the caller of
\* every entry point something else than a completed scan of a clean file does
C13_UnreadableIsFailure ==
    (ScanEnded /\ call.file.exists /\ call.file.read = "denied") =>
        call.visible # CleanOutput(call.entry, call.file, call.t)

---------------------------------------------------------------------------
(* what the claims say about updates of the store *)

UpdateDone == spc = "done" /\ call.op = "update"

PayloadNames(payload) == { payload.entries[i].name : i \in DOMAIN payload.entries }

PayloadEntries(payload) == { payload.entries[i] : i \in DOMAIN payload.entries }

\* C14: a successful update with the map M returns 0 and leaves the store with
\* every name of M at its pattern in M and every other name of the old store at
\* its old pattern, nothing removed; after any sequence of successful updates
\* and initialisations each name has the pattern of the last call that named it
C14_UpdateMerges ==
    /\ \A i, j \in DOMAIN signatures : signatures[i].name = signatures[j].name => i = j
    /\ Entries(signatures) = mentioned
    /\ (UpdateDone /\ call.ret = 0) =>
          /\ ParsesAsSignatures(call.payload)
          /\ PayloadEntries(call.payload) \subseteq Entries(signatures)
          /\ \A e \in Entries(call.before) :
                e.name \notin PayloadNames(call.payload) => e \in Entries(signatures)
          /\ Names(signatures) = Names(call.before) \cup PayloadNames(call.payload)
    /\ (UpdateDone /\ ParsesAsSignatures(call.payload)) => call.ret = 0

\* trojan_example gets a new pattern, ransomware_pattern keeps its own
C14_Witness ==
    /\ UpdateDone /\ call.ret = 0
    /\ Entry("trojan_example", TROJAN_PATTERN) \in Entries(call.before)
    /\ Entry("trojan_example", <<104, 101>>) \in Entries(signatures)
    /\ Entry("ransomware_pattern", RANSOMWARE_PATTERN) \in Entries(signatures)

\* a map from names to arrays of bytes
WellFormedMap(payload) ==
    /\ payload.kind = "json"
    /\ \A e \in PayloadEntries(payload) : \A j \in DOMAIN e.pattern : e.pattern[j] >= 0 /\ e.pattern[j] <= 255

\* C15: an update whose payload is not UTF-8, not JSON, or not a map from names
\* to arrays of bytes returns -1 and leaves the store as it was, the well-formed
\* entries of the payload included
C15_RejectedUpdateChangesNothing ==
    (spc # "idle" /\ call.op = "update" /\ ~WellFormedMap(call.payload)) =>
        /\ spc = "done"
        /\ call.ret = -1
        /\ signatures = call.before

\* a map with a well-formed entry and one whose element is 300, on a store
\* without the well-formed entry
C15_Witness ==
    /\ UpdateDone /\ call.ret = -1 /\ ~WellFormedMap(call.payload)
    /\ call.payload.kind = "json" /\ Len(call.payload.entries) = 2
    /\ "custom" \notin Names(signatures)
    /\ signatures # <<>>

---------------------------------------------------------------------------
(* what the claims say about scans and updates that run at the same time *)

Iterating(t) == tpc[t] = "iterating"

\* C16: while the signature stage of a scan iterates, the store is the store a
\* whole number of completed updates left, what the scan has seen of it is a
\* part of that store, and no update is in the middle of its inserts
C16_ScanSeesWholeUpdates ==
    \A t \in ScanThreads :
        Iterating(t) =>
            /\ signatures = committed
            /\ tloc[t].observed = SubSeq(committed, 1, Len(tloc[t].observed))
            /\ \A u \in WriterThreads : tpc[u] # "extending"

\* a scan two entries into a store of three, while an update with two entries
\* waits for the lock
C16_Witness ==
    \E t \in ScanThreads, u \in WriterThreads :
        /\ Iterating(t) /\ Len(tloc[t].observed) = 2 /\ Len(signatures) = 3
        /\ tpc[u] = "parsed" /\ Len(tloc[u].entries) = 2

---------------------------------------------------------------------------
(* what the claims say about scanning a file twice *)

---------------------------------------------------------------------------
(* what the claims say about operations that must return *)

\* C18: after any sequence of initialisations, updates with payloads that parse
\* and file scans, every scan, update, initialisation and statistics query
\* returns: none panics, and the mutex of the store is never poisoned
C18_EveryCallReturns ==
    /\ spc \notin PanicOutcomes
    /\ ~poisoned

---------------------------------------------------------------------------
(* what the claims say about the base64 test of DNS queries *)

QueryStart(p) == HeaderLen(p) + 8

QueryLen(p) == p.len - QueryStart(p)

\* how many of the first min(length, 128) query bytes are base64-like
Base64Like(p) ==
    Cardinality({ i \in 0..(Min(QueryLen(p), 128) - 1) :
                    LET c == Byte(p, QueryStart(p) + i)
                    IN  \/ c \in 65..90 \/ c \in 97..122 \/ c \in 48..57
                        \/ c \in {43, 47, 61, 45, 95} })

DnsCase(p) ==
    /\ Clean(p, 17, 28) /\ DstPort(p) \in {53, 5353}
    /\ QueryLen(p) >= 1 /\ QueryLen(p) <= 100

\* C19: a DNS query of 1 to 100 bytes gets DnsTunnelingSuspected exactly when
\* strictly more than 90% of its sampled bytes are base64-like, Allow otherwise
C19_Base64Ratio ==
    (Done /\ DnsCase(packet)) =>
        IF Base64Like(packet) * 100 > 90 * Min(QueryLen(packet), 128)
        THEN verdict.ret = 3 /\ verdict.rule = "dns_tunneling"
        ELSE verdict.ret = 0

---------------------------------------------------------------------------
(* what the claims say about the TLS sub-inspector *)

\* the fingerprint inspect_tls builds for p, when p has a TCP payload
TlsFingerprint(p) ==
    calculate_tls_fingerprint(p, PayloadStart(p), p.len - PayloadStart(p))

\* no more than three digits stand between two dashes of s
ShortComponents(s) ==
    \A i \in 1..(Len(s) - 3) : \E j \in i..(i + 3) : s[j] = 10

\* C20: inspect_tls never decides: every component of the fingerprint is the
\* decimal form of one byte, three digits at most, so no known-bad pattern
\* occurs in it; clean TCP to a port outside the C2 set for which HTTP gives no
\* decision yields Allow, whatever the handshake bytes are
C20_TlsNeverDecides ==
    /\ verdict.rule # "tls_fingerprint"
    /\ (Done /\ InPath("inspect_tls") /\ packet.len > PayloadStart(packet)) =>
          /\ ShortComponents(TlsFingerprint(packet))
          /\ ~is_malicious_fingerprint(TlsFingerprint(packet))
    /\ ( /\ Done /\ Clean(packet, 6, 40)
         /\ DstPort(packet) \notin {8080, 8443, 53, 5353, 1935, 9999, 22, 23}
         /\ verdict.rule \notin {"http_sensitive", "http_large"} )
          => verdict.ret = 0

\* a handshake record on port 443 whose bytes 3 3 204 169 204 168 192 43 192 47
\* are the 16-bit values 771 52393 52392 49195 49199
C20_Witness ==
    /\ Done /\ Clean(packet, 6, 40) /\ InPath("inspect_tls")
    /\ packet.word = <<22, 3, 3, 204, 169, 204, 168, 192, 43, 192, 47>>
    /\ packet.len = 80
    /\ verdict.ret = 0

====
